---- MODULE Spec2Model ----
(***************************************************************************)
(* State-machine model of hummingbird.ml.convert (src/hummingbird/ml/      *)
(* convert.py): the conversion orchestration pipeline.  One call of        *)
(* convert is followed through its program positions; the caller's         *)
(* configuration mapping, the shared default mapping of the signature and  *)
(* the caller's model object live in stores that outlast the call.         *)
(*                                                                         *)
(* Exceptions of the code are named after the error taxonomy of the        *)
(* specification where a member fits the raise site:                       *)
(*   MissingBackend (l.62)                         -> UnsupportedBackend   *)
(*   RuntimeError l.74, l.78, assert l.166         -> MissingBackend-      *)
(*                                                    Requirement          *)
(*   RuntimeError l.81, l.133, l.139               -> FeatureInference-    *)
(*                                                    Failure              *)
(*   assert l.286, assert l.169                    -> UnsupportedInputRank *)
(*   assert l.283, RuntimeError l.183, ValueError l.332                    *)
(*                                                 -> UnsupportedDataType  *)
(*   MissingConverter of the external parser       -> UnsupportedModel-    *)
(*                                                    Family               *)
(* and keep their Python name where none fits: AssertionError (l.257),     *)
(* AttributeError and IndexError (l.192, l.308).                           *)
(***************************************************************************)
EXTENDS Integers, Sequences, FiniteSets, TLC

\* ------------------------------------------------------------------ bounds

\* Largest row count of an enumerated sample input (0 rows = empty input).
MaxRows == 1
\* Largest column count of an enumerated array, list or tabular frame.
MaxCols == 2
\* Largest number of arrays in a group, and of fields in a distributed frame.
MaxItems == 2
\* Largest width of a vector-valued field of a distributed frame.
MaxWidth == 2
\* Largest feature count a caller or a model attribute states explicitly.
MaxFeat == 3

\* psutil.cpu_count(logical=False) of the host.
PhysicalCores == 4

\* ------------------------------------------------------------------ values

\* Python's None as a sample-input value.
NoneV ==
  [kind |-> "none", rank |-> 0, rows |-> 0, cols |-> 0, dtype |-> "none",
   items |-> <<>>, names |-> <<>>, fields |-> <<>>]

\* A list (kind "list") or numpy array (kind "ndarray") of the given shape;
\* a rank-1 value has `rows` elements and no column axis.
Arr(kind, rank, rows, cols, dtype) ==
  [kind |-> kind, rank |-> rank, rows |-> rows, cols |-> cols, dtype |-> dtype,
   items |-> <<>>, names |-> <<>>, fields |-> <<>>]

\* A tuple of values.
Tup(items) ==
  [kind |-> "tuple", rank |-> 0, rows |-> 0, cols |-> 0, dtype |-> "none",
   items |-> items, names |-> <<>>, fields |-> <<>>]

\* A pandas DataFrame of `rows` rows whose columns are `names`.
Frame(rows, names) ==
  [kind |-> "pandas", rank |-> 2, rows |-> rows, cols |-> Len(names),
   dtype |-> "float64", items |-> <<>>, names |-> names, fields |-> <<>>]

\* A Spark DataFrame of `size` rows; a field is [name, dataType, width],
\* width being the length of the first row's value for a vector-valued field.
SparkFrame(size, fields) ==
  [kind |-> "spark", rank |-> 2, rows |-> size, cols |-> Len(fields),
   dtype |-> "none", items |-> <<>>, names |-> <<>>, fields |-> fields]

\* ONNX initial types: the type of the first entry, initial_types[0][1].
NoTypes == [tensorType |-> "none", hasShape |-> FALSE, shape |-> <<>>]

\* ------------------------------------------------------------------ configuration

EmptyCfg ==
  [keys |-> {}, TEST_INPUT |-> NoneV, ONNX_INITIAL_TYPES |-> NoTypes,
   N_FEATURES |-> 0, N_INPUTS |-> 0, INPUT_NAMES |-> <<>>,
   CONTAINER |-> FALSE, N_THREADS |-> 0, ONNX_INITIALIZERS |-> FALSE]

\* key in extra_config
Has(cfg, k) == k \in cfg.keys

\* extra_config[key] = value
Put(cfg, k, v) == [cfg EXCEPT !.keys = @ \cup {k}, ![k] = v]

\* ------------------------------------------------------------------ environment

\* _utils.sparkml_installed(), _utils.pandas_installed(): the optional
\* subsystems are present (their frames and models could not exist otherwise).
sparkml_installed == TRUE
pandas_installed == TRUE

\* _utils.is_pandas_dataframe, _utils.is_spark_dataframe
is_pandas_dataframe(v) == v.kind = "pandas"
is_spark_dataframe(v) == v.kind = "spark"

\* supported.xgb_operator_list, supported.lgbm_operator_list
xgb_operator_list == {"XGBClassifier", "XGBRegressor"}
lgbm_operator_list == {"LGBMClassifier", "LGBMRegressor"}

\* supported.backends: the registry, keyed by lower-case name; a name that is
\* not registered resolves to None.  The values are the modules' __name__
\* objects, so the identity tests of _supported_backend_check_config succeed
\* exactly when the names are equal.
backends(name) ==
  IF name \in {"torch", "torch.jit", "onnx"} THEN name ELSE "None"

\* str.lower() on the backend names in use.
lower(name) ==
  CASE name = "ONNX" -> "onnx"
    [] name = "Torch.JIT" -> "torch.jit"
    [] name = "TensorFlow" -> "tensorflow"
    [] OTHER -> name

\* ------------------------------------------------------------------ helpers of convert.py

_is_onnx_model(model) == model.type = "ModelProto"

_is_sparkml_model(model) ==
  IF sparkml_installed
    THEN model.type \in {"PipelineModel", "Model", "Transformer"}
    ELSE FALSE

\* len(test_input)
len(v) ==
  CASE v.kind = "tuple" -> Len(v.items)
    [] OTHER -> v.rows

\* np.array(list)
np_array(v) == [v EXCEPT !.kind = "ndarray"]

\* sum([input.shape[1] for input in items])
RECURSIVE SumCols(_)
SumCols(items) ==
  IF items = <<>> THEN 0 ELSE Head(items).cols + SumCols(Tail(items))

\* tuple(splits) if len(splits) > 1 else splits[0]
Pack(splits) == IF Len(splits) > 1 THEN Tup(splits) ELSE splits[1]

\* spark field -> numpy dtype (l.314-332); "unrecognized" raises ValueError.
SparkNpDtype(field) ==
  CASE field.dataType \in {"DenseVector", "VectorUDT"} -> "float64"
    [] field.dataType = "SparseVector" -> "float64"
    [] field.dataType = "ArrayType" -> "float64"
    [] field.dataType = "IntegerType" -> "int32"
    [] field.dataType = "FloatType" -> "float32"
    [] field.dataType = "DoubleType" -> "float64"
    [] field.dataType = "LongType" -> "int64"
    [] OTHER -> "unrecognized"

\* spark field -> width of its split (l.313-322)
SparkShape(field) ==
  IF field.dataType \in {"DenseVector", "VectorUDT", "SparseVector", "ArrayType"}
    THEN field.width
    ELSE 1

\* N_FEATURES of a Spark DataFrame (l.304-305): the number of its fields.
SparkNFeatures(input_names) == Len(input_names)

\* The "Fix the test_input type" block of convert (l.278-337) on the call's
\* configuration: [err, cfg].
FixTestInput(cfg) ==
  IF ~Has(cfg, "TEST_INPUT") THEN [err |-> "none", cfg |-> cfg]
  ELSE LET ti == cfg.TEST_INPUT IN
    CASE ti.kind = "list" ->
           [err |-> "none", cfg |-> Put(cfg, "TEST_INPUT", np_array(ti))]
      [] ti.kind = "tuple" ->
           IF \E i \in 1..Len(ti.items) : ti.items[i].kind # "ndarray"
             THEN [err |-> "UnsupportedDataType", cfg |-> cfg]
           ELSE IF \E i \in 1..Len(ti.items) : ti.items[i].rank # 2
             THEN [err |-> "UnsupportedInputRank", cfg |-> cfg]
           ELSE [err |-> "none",
                 cfg |-> Put(Put(cfg, "N_FEATURES", SumCols(ti.items)),
                             "N_INPUTS", Len(ti.items))]
      [] pandas_installed /\ is_pandas_dataframe(ti) ->
           LET n == Len(ti.names)
               c1 == Put(Put(cfg, "N_INPUTS", n), "N_FEATURES", n)
               splits == [i \in 1..n |-> Arr("ndarray", 2, ti.rows, 1, ti.dtype)]
           IN IF n = 0
                THEN [err |-> "IndexError", cfg |-> c1]
                ELSE [err |-> "none",
                      cfg |-> Put(Put(c1, "TEST_INPUT", Pack(splits)),
                                  "INPUT_NAMES", ti.names)]
      [] sparkml_installed /\ is_spark_dataframe(ti) ->
           LET input_names == [i \in 1..Len(ti.fields) |-> ti.fields[i].name]
               c1 == Put(Put(cfg, "N_INPUTS", Len(input_names)),
                         "N_FEATURES", SparkNFeatures(input_names))
               size == ti.rows
               splits == [i \in 1..Len(ti.fields) |->
                            Arr("ndarray", 2, size, SparkShape(ti.fields[i]),
                                SparkNpDtype(ti.fields[i]))]
           IN IF size = 0 \/ Len(ti.fields) = 0
                THEN [err |-> "IndexError", cfg |-> c1]
              ELSE IF \E i \in 1..Len(ti.fields) :
                        SparkNpDtype(ti.fields[i]) = "unrecognized"
                THEN [err |-> "UnsupportedDataType", cfg |-> c1]
              ELSE [err |-> "none",
                    cfg |-> Put(Put(c1, "TEST_INPUT", Pack(splits)),
                                "INPUT_NAMES", input_names)]
      [] OTHER -> [err |-> "none", cfg |-> cfg]

\* Variant of _supported_backend_check: an unresolved backend is let through.
_supported_backend_check_lenient(backend) == "none"

\* _supported_backend_check: the error it raises, or "none".
_supported_backend_check(backend) ==
  IF backend = "None" THEN "UnsupportedBackend" ELSE "none"

\* Variant of _supported_backend_check_config: the test of the traced
\* backend is missing.
_supported_backend_check_config_untraced(model, backend, extra_config) ==
  IF backend = "onnx" /\ ~Has(extra_config, "ONNX_INITIAL_TYPES")
                      /\ ~Has(extra_config, "TEST_INPUT")
    THEN "MissingBackendRequirement"
  ELSE IF _is_onnx_model(model) /\ ~Has(extra_config, "ONNX_INITIAL_TYPES")
                                /\ ~Has(extra_config, "TEST_INPUT")
    THEN "FeatureInferenceFailure"
  ELSE "none"

\* _supported_backend_check_config: the error it raises, or "none".
_supported_backend_check_config(model, backend, extra_config) ==
  IF backend = "torch.jit" /\ ~Has(extra_config, "TEST_INPUT")
    THEN "MissingBackendRequirement"
  ELSE IF backend = "onnx" /\ ~Has(extra_config, "ONNX_INITIAL_TYPES")
                           /\ ~Has(extra_config, "TEST_INPUT")
    THEN "MissingBackendRequirement"
  ELSE IF _is_onnx_model(model) /\ ~Has(extra_config, "ONNX_INITIAL_TYPES")
                                /\ ~Has(extra_config, "TEST_INPUT")
    THEN "FeatureInferenceFailure"
  ELSE "none"

\* The dispatch chain of convert (l.349-361): the family whose converter runs.
Classify(model) ==
  CASE model.type \in xgb_operator_list -> "xgboost"
    [] model.type \in lgbm_operator_list -> "lightgbm"
    [] _is_onnx_model(model) -> "onnx"
    [] _is_sparkml_model(model) -> "sparkml"
    [] OTHER -> "sklearn"

\* Variant of XGBoostFeatures: the test input is consulted before the
\* model's attribute.
XGBoostFeatures_inputFirst(model, test_input, extra_config) ==
  IF test_input.kind = "ndarray" /\ test_input.rank = 2
    THEN [err |-> "none", cfg |-> Put(extra_config, "N_FEATURES", test_input.cols)]
  ELSE IF model.hasFC
    THEN [err |-> "none", cfg |-> Put(extra_config, "N_FEATURES", model.fc)]
  ELSE [err |-> "FeatureInferenceFailure", cfg |-> extra_config]

\* Feature inference of _convert_xgboost (l.127-142): [err, cfg].
XGBoostFeatures(model, test_input, extra_config) ==
  IF model.hasFC
    THEN [err |-> "none", cfg |-> Put(extra_config, "N_FEATURES", model.fc)]
  ELSE IF test_input.kind # "none"
    THEN IF test_input.kind = "ndarray" /\ test_input.rank = 2
           THEN [err |-> "none",
                 cfg |-> Put(extra_config, "N_FEATURES", test_input.cols)]
           ELSE [err |-> "FeatureInferenceFailure", cfg |-> extra_config]
  ELSE [err |-> "FeatureInferenceFailure", cfg |-> extra_config]

\* np dtype of an ONNX tensor type (l.174-187); "unsupported" raises.
OnnxNpDtype(tensorType) ==
  CASE tensorType = "FloatTensorType" -> "float32"
    [] tensorType = "DoubleTensorType" -> "float64"
    [] tensorType = "Int32TensorType" -> "int32"
    [] tensorType = "Int64TensorType" -> "int64"
    [] OTHER -> "unsupported"

\* The backends for which _convert_onnxml generates a test input (l.165).
OnnxSynthesizes(backend) == backend = "onnx"

\* test_input.shape[1] (l.192): [err, n].
ShapeOne(test_input) ==
  IF test_input.kind \in {"ndarray", "pandas"}
    THEN IF test_input.rank = 2
           THEN [err |-> "none", n |-> test_input.cols]
           ELSE [err |-> "IndexError", n |-> 0]
    ELSE [err |-> "AttributeError", n |-> 0]

\* Test-input generation and feature count of _convert_onnxml (l.159-196):
\* [err, cfg, test_input].
OnnxPrepare(model, backend, test_input, extra_config) ==
  LET initial_types == IF Has(extra_config, "ONNX_INITIAL_TYPES")
                         THEN extra_config.ONNX_INITIAL_TYPES ELSE NoTypes
      hasTypes == Has(extra_config, "ONNX_INITIAL_TYPES")
      generate == test_input.kind = "none" /\ OnnxSynthesizes(backend)
      genErr ==
        IF ~generate THEN "none"
        ELSE IF ~hasTypes \/ ~initial_types.hasShape
          THEN "MissingBackendRequirement"
        ELSE IF Len(initial_types.shape) # 2 THEN "UnsupportedInputRank"
        ELSE IF OnnxNpDtype(initial_types.tensorType) = "unsupported"
          THEN "UnsupportedDataType"
        ELSE "none"
      ti == IF generate /\ genErr = "none"
              THEN Arr("ndarray", 2, initial_types.shape[1], initial_types.shape[2],
                       OnnxNpDtype(initial_types.tensorType))
              ELSE test_input
      c1 == IF generate /\ genErr = "none"
              THEN Put(extra_config, "TEST_INPUT", ti) ELSE extra_config
      s1 == ShapeOne(ti)
  IN IF genErr # "none"
       THEN [err |-> genErr, cfg |-> extra_config, test_input |-> test_input]
     ELSE IF ~Has(c1, "N_FEATURES") /\ s1.err # "none"
       THEN [err |-> s1.err, cfg |-> c1, test_input |-> ti]
     ELSE [err |-> "none",
           cfg |-> Put(IF Has(c1, "N_FEATURES") THEN c1
                       ELSE Put(c1, "N_FEATURES", s1.n),
                       "ONNX_INITIALIZERS", TRUE),
           test_input |-> ti]

\* Variant of deepcopy_config: no copy is made, the local name stays bound to
\* the mapping that was passed.
deepcopy_config_aliased(ref) == ref

\* deepcopy(extra_config) (l.260): the object the local name is bound to
\* afterwards, a fresh private mapping.
deepcopy_config(ref) == "private"

\* Variant of deepcopy_model: the parser is handed the instance itself.
deepcopy_model_shared(ref) == ref

\* deepcopy(model) (l.96) and model.copy() (l.216): the object handed on.
deepcopy_model(ref) == "copy"
spark_copy(ref) == "copy"

\* The external parsers: parse_sklearn_api_model and parse_sparkml_api_model
\* modify the model they are given, parse_onnx_api_model only reads it.
ParserMutates(family) == family # "onnx"

\* ------------------------------------------------------------------ state

VARIABLES
  stage,    \* position of the running call in convert, "Idle" between calls
  call,     \* the locals of the running call (sample: the test_input
            \* argument as it was passed)
  store,    \* configuration mappings: the caller's, the signature's default
            \* {} and the private one of the running call
  heap,     \* model objects: the caller's instance and the copy of the call
  handed,   \* what the external parser and compiler were handed
  result,   \* what the call returns
  given,    \* the contents the caller gave its configuration mapping
  eq        \* the three conversions of one dataset (specification SpecEq)

vars == <<stage, call, store, heap, handed, result, given, eq>>

NoModel == [type |-> "NoneType", hasFC |-> FALSE, fc |-> 0]

NoCall ==
  [model |-> NoModel, backendName |-> "", backend |-> "", test_input |-> NoneV,
   sample |-> NoneV, cfgRef |-> "default", family |-> "", err |-> "none",
   parsed |-> FALSE, compiled |-> FALSE]

NoHanded == [obj |-> "none", cfg |-> EmptyCfg]

NoEq == [phase |-> "pick"]

\* The program state as one record, for the steps below.
World ==
  [stage |-> stage, call |-> call, store |-> store, heap |-> heap,
   handed |-> handed, result |-> result]

\* The state in which convert(model, backendName, test_input, extra_config)
\* has just been entered; cfgRef names the mapping bound to extra_config.
Enter(model, backendName, test_input, cfgRef, store0, heap0) ==
  [stage |-> "Unclassified",
   call |-> [NoCall EXCEPT !.model = model, !.backendName = backendName,
                           !.test_input = test_input, !.sample = test_input,
                           !.cfgRef = cfgRef],
   store |-> store0, heap |-> heap0, handed |-> NoHanded, result |-> "none"]

\* The mapping the local name extra_config is bound to, and a write to it.
Cfg(w) == w.store[w.call.cfgRef]
WithCfg(w, cfg) == [w EXCEPT !.store[w.call.cfgRef] = cfg]

\* An exception leaves convert.
Fail(w, err) == [w EXCEPT !.stage = "Failed", !.call.err = err]

\* ------------------------------------------------------------------ steps of convert

\* l.257-339: the assertion on the model, the private copy of the
\* configuration, its defaults, and the canonical form of the test input.
CanonicalizeStep(w) ==
  IF w.call.model.type = "NoneType" THEN Fail(w, "AssertionError")
  ELSE
    LET ref == deepcopy_config(w.call.cfgRef)
        w1 == [w EXCEPT !.store.private = w.store[w.call.cfgRef],
                        !.call.cfgRef = ref]
        ti == w.call.test_input
        c1 == IF /\ ti.kind # "none"
                 /\ ~Has(Cfg(w1), "TEST_INPUT")
                 /\ (is_spark_dataframe(ti) \/ len(ti) > 0)
                THEN Put(Cfg(w1), "TEST_INPUT", ti) ELSE Cfg(w1)
        c2 == IF ~Has(c1, "CONTAINER") THEN Put(c1, "CONTAINER", TRUE) ELSE c1
        c3 == IF ~Has(c2, "N_THREADS")
                THEN Put(c2, "N_THREADS", PhysicalCores) ELSE c2
        fix == FixTestInput(c3)
        w2 == WithCfg(w1, fix.cfg)
    IN IF fix.err # "none" THEN Fail(w2, fix.err)
       ELSE [w2 EXCEPT !.stage = "InputCanonicalized",
                       !.call.test_input =
                          IF Has(fix.cfg, "TEST_INPUT")
                            THEN fix.cfg.TEST_INPUT ELSE ti]

\* l.341-347: the backend is normalized, resolved and checked.
ValidateStep(w) ==
  LET backend == backends(lower(w.call.backendName))
      w1 == [w EXCEPT !.call.backend = backend]
      e1 == _supported_backend_check(backend)
      e2 == _supported_backend_check_config(w.call.model, backend, Cfg(w))
  IN IF e1 # "none" THEN Fail(w1, e1)
     ELSE IF e2 # "none" THEN Fail(w1, e2)
     ELSE [w1 EXCEPT !.stage = "BackendValidated"]

\* l.349-361: the tests that select the family converter.
ClassifyStep(w) ==
  [w EXCEPT !.stage = "Classified", !.call.family = Classify(w.call.model)]

\* The family converter is entered (l.350-361; its assertions on the
\* installed packages hold).
DispatchStep(w) == [w EXCEPT !.stage = "Dispatched"]

\* The family converter's own preparation: l.127-142 for XGBoost,
\* l.159-196 for ONNX, nothing for the other families.
ResolveStep(w) ==
  CASE w.call.family = "xgboost" ->
         LET r == XGBoostFeatures(w.call.model, w.call.test_input, Cfg(w))
         IN IF r.err # "none" THEN Fail(WithCfg(w, r.cfg), r.err)
            ELSE [WithCfg(w, r.cfg) EXCEPT !.stage = "FeaturesResolved"]
    [] w.call.family = "onnx" ->
         LET r == OnnxPrepare(w.call.model, w.call.backend,
                              w.call.test_input, Cfg(w))
         IN IF r.err # "none" THEN Fail(WithCfg(w, r.cfg), r.err)
            ELSE [WithCfg(w, r.cfg) EXCEPT !.stage = "FeaturesResolved",
                                           !.call.test_input = r.test_input]
    [] OTHER -> [w EXCEPT !.stage = "FeaturesResolved"]

\* The object the family converter hands to its parser (l.96, l.199, l.216).
ParserObject(family) ==
  CASE family = "onnx" -> "caller"
    [] family = "sparkml" -> spark_copy("caller")
    [] OTHER -> deepcopy_model("caller")

\* Variant of ParseAndCompileStep: a failure of the parser is swallowed and
\* the call returns without a converted model.
ParseAndCompileStep_swallowed(w, parserOk) ==
  [w EXCEPT !.stage = "Compiled", !.call.parsed = TRUE,
            !.handed = [obj |-> ParserObject(w.call.family), cfg |-> Cfg(w)],
            !.call.compiled = parserOk,
            !.result = IF parserOk THEN "ConvertedModel" ELSE "none"]

\* l.96-101, l.199-203, l.216-221: the model is copied where the parser
\* modifies it, parsed, and the topology compiled.  parserOk: the external
\* parser finds a converter for every operator of the model.
ParseAndCompileStep(w, parserOk) ==
  LET obj == ParserObject(w.call.family)
      h1 == IF obj = "copy" THEN [w.heap EXCEPT !.copy = w.heap.caller]
                            ELSE w.heap
      h2 == IF ParserMutates(w.call.family)
              THEN [h1 EXCEPT ![obj] = "modified"] ELSE h1
      w1 == [w EXCEPT !.heap = h2,
                      !.handed = [obj |-> obj, cfg |-> Cfg(w)],
                      !.call.parsed = TRUE]
  IN IF ~parserOk THEN Fail(w1, "UnsupportedModelFamily")
     ELSE [w1 EXCEPT !.stage = "Compiled", !.call.compiled = TRUE,
                     !.result = "ConvertedModel"]

\* The call is over: its locals, its private configuration and its copy of
\* the model are gone; the caller's objects and the default mapping stay.
ReturnStep(w) ==
  [w EXCEPT !.stage = "Idle", !.call = NoCall, !.handed = NoHanded,
            !.result = "none",
            !.store.private = EmptyCfg, !.heap.copy = "free"]

\* One whole call, from entry to Compiled or Failed.
RECURSIVE Run(_, _)
Run(w, parserOk) ==
  CASE w.stage = "Unclassified" -> Run(CanonicalizeStep(w), parserOk)
    [] w.stage = "InputCanonicalized" -> Run(ValidateStep(w), parserOk)
    [] w.stage = "BackendValidated" -> Run(ClassifyStep(w), parserOk)
    [] w.stage = "Classified" -> Run(DispatchStep(w), parserOk)
    [] w.stage = "Dispatched" -> Run(ResolveStep(w), parserOk)
    [] w.stage = "FeaturesResolved" -> Run(ParseAndCompileStep(w, parserOk), parserOk)
    [] OTHER -> w

\* ------------------------------------------------------------------ the calls explored

F64 == "float64"
ColNames == <<"a", "b", "c", "d", "e", "f">>
RowVals == {0, MaxRows}
ColVals == {1, MaxCols}

Models ==
  {NoModel,
   [type |-> "XGBRegressor", hasFC |-> FALSE, fc |-> 0],
   [type |-> "LGBMClassifier", hasFC |-> FALSE, fc |-> 0],
   [type |-> "ModelProto", hasFC |-> FALSE, fc |-> 0],
   [type |-> "PipelineModel", hasFC |-> FALSE, fc |-> 0],
   [type |-> "LogisticRegression", hasFC |-> FALSE, fc |-> 0]}
  \cup {[type |-> "XGBClassifier", hasFC |-> TRUE, fc |-> MaxFeat]}

BackendNames == {"torch", "torch.jit", "ONNX", "tensorflow"}

Lists ==
  {Arr("list", 2, MaxRows, c, F64) : c \in ColVals}
  \cup {Arr("list", 1, 0, 0, F64), Arr("list", 1, MaxCols, 0, F64)}

Arrays ==
  {Arr("ndarray", 2, r, c, F64) : r \in RowVals, c \in ColVals}
  \cup {Arr("ndarray", 1, MaxCols, 0, F64)}

TupleItems ==
  {Arr("ndarray", 2, MaxRows, c, F64) : c \in ColVals}
  \cup {Arr("ndarray", 1, MaxCols, 0, F64), Arr("list", 2, MaxRows, 1, F64)}

Tuples == {Tup(s) : s \in UNION {[1..n -> TupleItems] : n \in 1..MaxItems}}

Frames == {Frame(r, SubSeq(ColNames, 1, c)) : r \in RowVals, c \in ColVals}

FieldKinds ==
  {[dataType |-> "VectorUDT", width |-> w] : w \in {1, MaxWidth}}
  \cup {[dataType |-> "ArrayType", width |-> MaxWidth]}
  \cup {[dataType |-> t, width |-> 1] :
          t \in {"IntegerType", "FloatType", "DoubleType", "LongType", "StringType"}}

\* The fields after the first of an enumerated distributed frame.
LaterFieldKinds ==
  {k \in FieldKinds : k.dataType \in {"VectorUDT", "DoubleType", "StringType"}
                      /\ k.width \in {1, MaxWidth} /\ (k.dataType = "VectorUDT" => k.width = MaxWidth)}

Schemas ==
  UNION {{s \in [1..n -> FieldKinds] : \A i \in 2..n : s[i] \in LaterFieldKinds} :
           n \in 1..MaxItems}

SparkFrames ==
  {SparkFrame(r, [i \in 1..Len(s) |->
                    [name |-> ColNames[i], dataType |-> s[i].dataType,
                     width |-> s[i].width]]) :
     r \in RowVals, s \in Schemas}

SampleInputs == {NoneV} \cup Lists \cup Arrays \cup Tuples \cup Frames \cup SparkFrames

InitialTypes ==
  {[tensorType |-> t, hasShape |-> TRUE, shape |-> <<MaxRows, MaxCols>>] :
     t \in {"FloatTensorType", "DoubleTensorType", "Int32TensorType",
            "Int64TensorType", "StringTensorType"}}
  \cup {[tensorType |-> "FloatTensorType", hasShape |-> FALSE, shape |-> <<>>],
        [tensorType |-> "FloatTensorType", hasShape |-> TRUE, shape |-> <<MaxCols>>],
        [tensorType |-> "FloatTensorType", hasShape |-> TRUE,
         shape |-> <<MaxRows, MaxCols, MaxCols>>]}

\* Optional entries of a caller's mapping.
WithFeat(cfgs) == cfgs \cup {Put(c, "N_FEATURES", MaxFeat) : c \in cfgs}
WithTypes(cfgs) ==
  cfgs \cup {Put(c, "ONNX_INITIAL_TYPES", t) : c \in cfgs, t \in InitialTypes}
WithInput(cfgs) ==
  cfgs \cup {Put(c, "TEST_INPUT", v) : c \in cfgs,
               v \in {Arr("ndarray", 2, MaxRows, 1, F64),
                      Arr("list", 2, MaxRows, MaxCols, F64)}}
WithRuntime(cfgs) ==
  cfgs \cup {Put(Put(c, "CONTAINER", FALSE), "N_THREADS", 1) : c \in cfgs}

\* Caller mappings tried with every sample input (the empty mapping is tried
\* as the default), and those tried with the sample input absent or a plain
\* array.
PlainCfgs == (WithRuntime({EmptyCfg}) \cup WithFeat({EmptyCfg})) \ {EmptyCfg}
RichCfgs == WithInput(WithTypes(WithFeat({EmptyCfg})))
PlainInputs == {NoneV, Arr("ndarray", 2, MaxRows, MaxCols, F64)}

\* cfg = "the caller passes this mapping"; default = "the caller passes none".
Requests ==
  {[model |-> m, backendName |-> b, test_input |-> v, default |-> FALSE, cfg |-> c] :
     m \in Models, b \in BackendNames, v \in SampleInputs, c \in PlainCfgs}
  \cup
  {[model |-> m, backendName |-> b, test_input |-> v, default |-> FALSE, cfg |-> c] :
     m \in Models, b \in BackendNames, v \in PlainInputs, c \in RichCfgs}
  \cup
  {[model |-> m, backendName |-> b, test_input |-> v, default |-> TRUE, cfg |-> EmptyCfg] :
     m \in Models, b \in BackendNames, v \in SampleInputs}

\* ------------------------------------------------------------------ specification

Init ==
  /\ stage = "Idle"
  /\ call = NoCall
  /\ store = [caller |-> EmptyCfg, default |-> EmptyCfg, private |-> EmptyCfg]
  /\ heap = [caller |-> "pristine", copy |-> "free"]
  /\ handed = NoHanded
  /\ result = "none"
  /\ given = EmptyCfg
  /\ eq = NoEq

Apply(w) ==
  /\ stage' = w.stage
  /\ call' = w.call
  /\ store' = w.store
  /\ heap' = w.heap
  /\ handed' = w.handed
  /\ result' = w.result

\* convert(model, backend, test_input, extra_config=cfg), cfg a mapping the
\* caller has just built.
StartCall ==
  /\ stage = "Idle"
  /\ given = EmptyCfg /\ store.caller = EmptyCfg
  /\ \E rq \in Requests :
       /\ ~rq.default
       /\ Apply(Enter(rq.model, rq.backendName, rq.test_input, "caller",
                      [store EXCEPT !.caller = rq.cfg], heap))
       /\ given' = rq.cfg
  /\ UNCHANGED eq

\* convert(model, backend, test_input): extra_config is the default {} of the
\* signature; the caller holds no mapping.
StartCallDefault ==
  /\ stage = "Idle"
  /\ given = EmptyCfg /\ store.caller = EmptyCfg
  /\ \E rq \in Requests :
       /\ rq.default
       /\ Apply(Enter(rq.model, rq.backendName, rq.test_input, "default",
                      store, heap))
  /\ UNCHANGED <<given, eq>>

\* convert(...) again with the mapping the caller passed to the previous call.
StartCallReusing ==
  /\ stage = "Idle"
  /\ \E rq \in Requests :
       /\ ~rq.default
       /\ rq.cfg = given
       /\ Apply(Enter(rq.model, rq.backendName, rq.test_input, "caller", store, heap))
  /\ UNCHANGED <<given, eq>>

\* Between calls the caller drops the mapping it holds.
Forget ==
  /\ stage = "Idle"
  /\ store.caller # EmptyCfg \/ given # EmptyCfg
  /\ store' = [store EXCEPT !.caller = EmptyCfg]
  /\ given' = EmptyCfg
  /\ UNCHANGED <<stage, call, heap, handed, result, eq>>

Canonicalize ==
  /\ stage = "Unclassified"
  /\ Apply(CanonicalizeStep(World))
  /\ UNCHANGED <<given, eq>>

ValidateBackend ==
  /\ stage = "InputCanonicalized"
  /\ Apply(ValidateStep(World))
  /\ UNCHANGED <<given, eq>>

ClassifyModel ==
  /\ stage = "BackendValidated"
  /\ Apply(ClassifyStep(World))
  /\ UNCHANGED <<given, eq>>

Dispatch ==
  /\ stage = "Classified"
  /\ Apply(DispatchStep(World))
  /\ UNCHANGED <<given, eq>>

ResolveFeatures ==
  /\ stage = "Dispatched"
  /\ Apply(ResolveStep(World))
  /\ UNCHANGED <<given, eq>>

ParseAndCompile ==
  /\ stage = "FeaturesResolved"
  /\ \E parserOk \in BOOLEAN : Apply(ParseAndCompileStep(World, parserOk))
  /\ UNCHANGED <<given, eq>>

Return ==
  /\ stage \in {"Compiled", "Failed"}
  /\ Apply(ReturnStep(World))
  /\ UNCHANGED <<given, eq>>

Next ==
  \/ StartCall
  \/ StartCallDefault
  \/ StartCallReusing
  \/ Forget
  \/ Canonicalize
  \/ ValidateBackend
  \/ ClassifyModel
  \/ Dispatch
  \/ ResolveFeatures
  \/ ParseAndCompile
  \/ Return

Spec == Init /\ [][Next]_vars

\* ------------------------------------------------------------------ three forms of one dataset

\* What a finished call shows: its outcome and the configuration it resolved.
Summary(w) ==
  [stage |-> w.stage, err |-> w.call.err, cfg |-> Cfg(w)]

\* A whole call on fresh stores.
Convert(model, backendName, test_input, default, cfg, parserOk) ==
  Run(Enter(model, backendName, test_input,
            IF default THEN "default" ELSE "caller",
            [caller |-> cfg, default |-> EmptyCfg, private |-> EmptyCfg],
            [caller |-> "pristine", copy |-> "free"]),
      parserOk)

\* One dataset of r rows and c columns is converted three times, as a nested
\* list, as a two-dimensional array and as a tabular frame.
EqConvert ==
  /\ eq.phase = "pick"
  /\ \E m \in Models \ {NoModel}, b \in BackendNames, r \in 1..MaxRows,
        c \in 1..MaxCols, parserOk \in BOOLEAN, default \in BOOLEAN,
        cfg \in PlainCfgs :
       /\ default => cfg = EmptyCfg
       /\ eq' = [phase |-> "done", model |-> m, backendName |-> b,
                 rows |-> r, cols |-> c, cfg |-> cfg,
                 asList |-> Summary(Convert(m, b, Arr("list", 2, r, c, F64),
                                            default, cfg, parserOk)),
                 asArray |-> Summary(Convert(m, b, Arr("ndarray", 2, r, c, F64),
                                             default, cfg, parserOk)),
                 asFrame |-> Summary(Convert(m, b, Frame(r, SubSeq(ColNames, 1, c)),
                                             default, cfg, parserOk))]
  /\ UNCHANGED <<stage, call, store, heap, handed, result, given>>

EqReset ==
  /\ eq.phase = "done"
  /\ eq' = NoEq
  /\ UNCHANGED <<stage, call, store, heap, handed, result, given>>

NextEq == EqConvert \/ EqReset

SpecEq == Init /\ [][NextEq]_vars

\* ------------------------------------------------------------------ claims

InCall == stage # "Idle"
Resolved == Cfg(World)
Unresolvable == backends(lower(call.backendName)) = "None"
\* The backend was resolved to a registered one (l.343 ran and l.346 passed).
BackendResolved == call.backend \notin {"", "None"}
NoSample(cfg) == ~Has(cfg, "TEST_INPUT")
NoShapes(cfg) == ~Has(cfg, "ONNX_INITIAL_TYPES")
NotInvoked == ~call.parsed /\ ~call.compiled /\ handed = NoHanded

\* Sum of the column counts of the arrays of a canonical sample input.
TotalCols(v) == IF v.kind = "tuple" THEN SumCols(v.items) ELSE v.cols

\* C1: the caller's configuration mapping has the contents the caller gave
\* it and the shared default mapping stays empty, in every state of every
\* sequence of calls; whatever a call writes goes to its private copy.
C1_ConfigPrivate ==
  /\ store.caller = given
  /\ store.default = EmptyCfg
  /\ (stage \notin {"Idle", "Unclassified"} /\ call.err # "AssertionError"
        => call.cfgRef = "private")

C1_Witness ==
  /\ stage = "Compiled"
  /\ given # EmptyCfg
  /\ Has(given, "N_FEATURES")
  /\ Has(store.private, "ONNX_INITIALIZERS")
  /\ Has(store.private, "TEST_INPUT")
  /\ store.private # store.caller

\* C2 as stated: a call whose backend name does not resolve fails with
\* UnsupportedBackend whatever the model and the sample input are.
C2_Original ==
  (stage = "Failed" /\ Unresolvable) => call.err = "UnsupportedBackend"

\* C2 amended: a call whose backend name does not resolve never gets past
\* backend validation (no family is selected, no parser or compiler runs),
\* and once the model assertion and the canonicalization of the sample input
\* have passed it fails with UnsupportedBackend, whatever the model's family.
C2_BackendFirst ==
  (InCall /\ Unresolvable) =>
    /\ stage \in {"Unclassified", "InputCanonicalized", "Failed"}
    /\ call.family = ""
    /\ NotInvoked
    /\ (stage = "Failed" /\ call.backend # "" => call.err = "UnsupportedBackend")
    /\ (stage = "Failed" /\ call.backend = "" =>
          call.err \in {"AssertionError", "UnsupportedDataType",
                        "UnsupportedInputRank", "IndexError"})

C2_Witness ==
  /\ stage = "Failed"
  /\ call.err = "UnsupportedBackend"
  /\ call.backendName = "tensorflow"
  /\ call.model.type = "XGBRegressor"
  /\ call.sample = NoneV

\* The three preconditions of the backend check, unmet.
TracedUnmet == call.backend = "torch.jit" /\ NoSample(Resolved)
ExportedUnmet == call.backend = "onnx" /\ NoShapes(Resolved) /\ NoSample(Resolved)
SourceUnmet == _is_onnx_model(call.model) /\ NoShapes(Resolved) /\ NoSample(Resolved)
FailedFast == stage = "Failed" /\ call.family = "" /\ NotInvoked

\* C3 as stated: the three backend preconditions, each with the error kind
\* the claim gives it, the ONNX source model's whatever the backend.
C3_Original ==
  BackendResolved =>
    /\ (TracedUnmet => FailedFast /\ call.err = "MissingBackendRequirement")
    /\ (ExportedUnmet => FailedFast /\ call.err = "MissingBackendRequirement")
    /\ (SourceUnmet => FailedFast /\ call.err = "FeatureInferenceFailure")

\* C3 amended: the preconditions are tested in the order traced backend,
\* exported-graph backend, ONNX source model, and the first one that is unmet
\* decides the error: an ONNX source model without shapes and sample input
\* fails with FeatureInferenceFailure when the backend is neither of the
\* two, and with MissingBackendRequirement when it is; always before any
\* family is selected and before the parser and the compiler run.
C3_FailFast ==
  BackendResolved =>
    /\ (TracedUnmet => FailedFast /\ call.err = "MissingBackendRequirement")
    /\ (ExportedUnmet => FailedFast /\ call.err = "MissingBackendRequirement")
    /\ (SourceUnmet =>
          /\ FailedFast
          /\ call.err = IF call.backend \in {"torch.jit", "onnx"}
                          THEN "MissingBackendRequirement"
                          ELSE "FeatureInferenceFailure")

C3_Witness ==
  /\ stage = "Failed"
  /\ call.err = "FeatureInferenceFailure"
  /\ call.model.type = "ModelProto"
  /\ call.backend = "torch"
  /\ call.family = ""
  /\ NotInvoked

\* C4: when a call reaches dispatch with a feature count in its
\* configuration that the caller did not state, the count is positive and
\* equals the sum of the column counts of the canonical sample input.
C4_FeatureCountConsistent ==
  (stage = "Dispatched" /\ Has(Resolved, "N_FEATURES") /\ ~Has(given, "N_FEATURES")) =>
    /\ Resolved.N_FEATURES > 0
    /\ Has(Resolved, "TEST_INPUT")
    /\ Resolved.N_FEATURES = TotalCols(Resolved.TEST_INPUT)

\* C5: a feature count stated by the caller is never overwritten in the
\* call's configuration, reaches the parser unchanged, and the call does not
\* fail with a feature-inference error.
C5_ExplicitFeatureCount ==
  (InCall /\ Has(given, "N_FEATURES") /\ call.cfgRef = "private") =>
    /\ Resolved.N_FEATURES = given.N_FEATURES
    /\ (call.parsed => handed.cfg.N_FEATURES = given.N_FEATURES)
    /\ (stage = "Failed" => call.err # "FeatureInferenceFailure")

\* Two finished calls compared.
SameOutcome(x, y) == x.stage = y.stage /\ x.err = y.err
SameFeatures(x, y) ==
  (Has(x.cfg, "N_FEATURES") /\ Has(y.cfg, "N_FEATURES")) =>
     x.cfg.N_FEATURES = y.cfg.N_FEATURES
SameLayout(x, y) ==
  (Has(x.cfg, "TEST_INPUT") /\ Has(y.cfg, "TEST_INPUT")) =>
     TotalCols(x.cfg.TEST_INPUT) = TotalCols(y.cfg.TEST_INPUT)

\* C6: the three forms of one dataset have the same outcome, the same
\* feature count wherever two of them resolve one, and the same number of
\* columns in their canonical sample input, when the caller states no feature
\* count of its own.
C6_Equivalence ==
  (eq.phase = "done" /\ ~Has(eq.cfg, "N_FEATURES")) =>
    /\ SameOutcome(eq.asList, eq.asArray) /\ SameOutcome(eq.asArray, eq.asFrame)
    /\ SameFeatures(eq.asList, eq.asArray) /\ SameFeatures(eq.asArray, eq.asFrame)
    /\ SameLayout(eq.asList, eq.asArray) /\ SameLayout(eq.asArray, eq.asFrame)

C8_CopyBeforeMutate ==
  /\ heap.caller = "pristine"
  /\ (call.parsed /\ call.family \in {"sklearn", "sparkml"} => handed.obj = "copy")
  /\ (call.parsed /\ call.family = "onnx" => handed.obj = "caller")

C8_Witness ==
  /\ stage \in {"Compiled", "Failed"}
  /\ call.parsed
  /\ call.family = "sklearn"
  /\ heap.copy = "modified"
  /\ heap.caller = "pristine"

\* The numpy dtype a declared tensor type stands for.
DeclaredDtype(t) ==
  CASE t.tensorType = "FloatTensorType" -> "float32"
    [] t.tensorType = "DoubleTensorType" -> "float64"
    [] t.tensorType = "Int32TensorType" -> "int32"
    [] t.tensorType = "Int64TensorType" -> "int64"
    [] OTHER -> "other"

\* C9, for the declared shapes and dtypes it supports: an ONNX model
\* converted without sample input and with a declared two-dimensional input
\* shape of dtype float32, float64, int32 or int64 gets, for every registered
\* backend that passes validation, a synthesized sample input of the declared
\* shape and dtype and the declared column count as feature count.
C9_OnnxSynthesis ==
  (/\ call.family = "onnx" /\ stage \in {"FeaturesResolved", "Compiled", "Failed"}
   /\ call.sample = NoneV /\ call.cfgRef = "private"
   /\ ~Has(given, "TEST_INPUT") /\ ~Has(given, "N_FEATURES")
   /\ Has(given, "ONNX_INITIAL_TYPES") /\ given.ONNX_INITIAL_TYPES.hasShape
   /\ Len(given.ONNX_INITIAL_TYPES.shape) = 2
   /\ DeclaredDtype(given.ONNX_INITIAL_TYPES) # "other") =>
    LET t == given.ONNX_INITIAL_TYPES IN
      /\ call.err \in {"none", "UnsupportedModelFamily"}
      /\ Has(Resolved, "TEST_INPUT")
      /\ Resolved.TEST_INPUT =
           Arr("ndarray", 2, t.shape[1], t.shape[2], DeclaredDtype(t))
      /\ Resolved.N_FEATURES = t.shape[2]

\* The order of the stages as the pipeline is described.
ClaimedOrder ==
  <<"Unclassified", "Classified", "InputCanonicalized", "FeaturesResolved",
    "BackendValidated", "Dispatched", "Compiled">>
\* The order of the stages in convert.
CodeOrder ==
  <<"Unclassified", "InputCanonicalized", "BackendValidated", "Classified",
    "Dispatched", "FeaturesResolved", "Compiled">>
Follows(order, from, to) ==
  \E i \in 1..(Len(order) - 1) : order[i] = from /\ order[i + 1] = to
\* A step of a call: to the next stage of the order or to Failed; a call
\* begins in the first stage and is left only from Compiled or Failed.
Linear(order) ==
  stage' # stage =>
    /\ stage = "Idle" => stage' = order[1]
    /\ stage' = "Idle" => stage \in {"Compiled", "Failed"}
    /\ (stage # "Idle" /\ stage' # "Idle") =>
         /\ stage \notin {"Compiled", "Failed"}
         /\ stage' = "Failed" \/ Follows(order, stage, stage')
    /\ stage' = "Compiled" => result' = "ConvertedModel"
    /\ stage' = "Failed" => result' = "none"

====
